---------------------------- MODULE Spec2Model ----------------------------
(***************************************************************************)
(* Model of the GameItems contract (src/game_items/src/lib.rs).            *)
(*                                                                         *)
(* The contract keeps two LookupMaps: items (id -> GameItem) and           *)
(* owner_to_items (account -> UnorderedSet<String>).  A LookupMap value is *)
(* the serialized struct; for an UnorderedSet that is only its two storage *)
(* prefixes and the length of its element vector.  The members of a set    *)
(* live in the contract's key-value storage under those prefixes:          *)
(*     element_index_prefix ++ element  ->  index                          *)
(*     elements.prefix ++ index         ->  element                        *)
(* Every set the contract constructs is built by                           *)
(* UnorderedSet::new(b"owner".to_vec()) (lib.rs:51, lib.rs:71), so the     *)
(* model keeps the prefix in the struct and in the storage keys.           *)
(*                                                                         *)
(* A panic inside a call aborts the call; the host discards the writes of  *)
(* an aborted call, so a failing call leaves the state as it was.          *)
(***************************************************************************)
EXTENDS Integers, Sequences, FiniteSets, TLC

\* ------------------------------------------------------------------ bounds
NumAccounts == 3
NumIds == 3
NumMetadata == 1

AccountPool == <<"owner", "alice", "bob", "carol", "dave", "erin">>
IdPool == <<"item1", "item2", "item3", "item4", "item5", "item6">>
MetadataPool == <<"{power:10}", "{power:20}", "{power:30}", "{power:40}">>

Accounts == {AccountPool[k] : k \in 1..NumAccounts}
Ids == {IdPool[k] : k \in 1..NumIds}
Metadata == {MetadataPool[k] : k \in 1..NumMetadata}

VARIABLES
    owner_id,        \* GameItems.owner_id: the account allowed to mint
    items,           \* GameItems.items: id -> GameItem
    owner_to_items,  \* GameItems.owner_to_items: account -> UnorderedSet struct
    storage,         \* storage behind the UnorderedSets: [index, elements]
    call,            \* the last call: operation, caller, arguments, outcome
    pre              \* the state in which the last call started

vars == <<owner_id, items, owner_to_items, storage, call, pre>>

\* ------------------------------------------------------- key-value storage
None == "-"

storage_write(m, key, value) ==
    [k \in DOMAIN m \cup {key} |-> IF k = key THEN value ELSE m[k]]

storage_remove(m, key) ==
    [k \in DOMAIN m \ {key} |-> m[k]]

storage_has_key(m, key) == key \in DOMAIN m

EmptyMap == [k \in {} |-> None]

\* the prefix every owner's set is constructed with
OwnerPrefix == "owner"

\* ---------------------------------------------------------------- Vector
\* Results of the collection operations: fault is TRUE when the operation
\* panics (ERR_INCONSISTENT_STATE, ERR_INDEX_OUT_OF_BOUNDS, u64 underflow).
Vector_lookup_key(v, index) == <<v.prefix, index>>

Vector_push_raw(v, st, element) ==
    [fault |-> FALSE,
     vec |-> [v EXCEPT !.len = v.len + 1],
     st |-> [st EXCEPT !.elements =
                storage_write(@, Vector_lookup_key(v, v.len), element)]]

\* called with v.len > 0
Vector_pop_raw(v, st) ==
    LET last_lookup_key == Vector_lookup_key(v, v.len - 1)
    IN  IF storage_has_key(st.elements, last_lookup_key)
        THEN [fault |-> FALSE,
              vec |-> [v EXCEPT !.len = v.len - 1],
              st |-> [st EXCEPT !.elements = storage_remove(@, last_lookup_key)],
              value |-> st.elements[last_lookup_key]]
        ELSE [fault |-> TRUE, vec |-> v, st |-> st, value |-> None]

Vector_swap_remove_raw(v, st, index) ==
    IF index >= v.len
    THEN [fault |-> TRUE, vec |-> v, st |-> st]
    ELSE IF index + 1 = v.len
    THEN LET p == Vector_pop_raw(v, st)
         IN  [fault |-> p.fault, vec |-> p.vec, st |-> p.st]
    ELSE LET lookup_key == Vector_lookup_key(v, index)
             p == Vector_pop_raw(v, st)
         IN  IF p.fault \/ ~storage_has_key(p.st.elements, lookup_key)
             THEN [fault |-> TRUE, vec |-> v, st |-> st]
             ELSE [fault |-> FALSE,
                   vec |-> p.vec,
                   st |-> [p.st EXCEPT !.elements =
                              storage_write(@, lookup_key, p.value)]]

\* ---------------------------------------------------------- UnorderedSet
UnorderedSet_new(prefix) ==
    [element_index_prefix |-> <<prefix, "i">>,
     elements |-> [len |-> 0, prefix |-> <<prefix, "e">>]]

index_lookup(set, element) == <<set.element_index_prefix, element>>

UnorderedSet_insert(set, st, element) ==
    IF storage_has_key(st.index, index_lookup(set, element))
    THEN [fault |-> FALSE, set |-> set, st |-> st]
    ELSE LET st1 == [st EXCEPT !.index =
                        storage_write(@, index_lookup(set, element),
                                      set.elements.len)]
             p == Vector_push_raw(set.elements, st1, element)
         IN  [fault |-> FALSE,
              set |-> [set EXCEPT !.elements = p.vec],
              st |-> p.st]

UnorderedSet_remove(set, st, element) ==
    LET lookup == index_lookup(set, element)
        len == set.elements.len
    IN  IF ~storage_has_key(st.index, lookup)
        THEN [fault |-> FALSE, set |-> set, st |-> st]
        ELSE LET index_raw == st.index[lookup]
                 last_key == Vector_lookup_key(set.elements, len - 1)
             IN  IF len # 1 /\ (len = 0 \/ ~storage_has_key(st.elements, last_key))
                 THEN \* len - 1 underflows, or the last element is missing
                      [fault |-> TRUE, set |-> set, st |-> st]
                 ELSE LET st1 ==
                              IF len = 1 \/ st.elements[last_key] = element
                              THEN [st EXCEPT !.index = storage_remove(@, lookup)]
                              ELSE [st EXCEPT !.index =
                                       storage_write(storage_remove(@, lookup),
                                           index_lookup(set, st.elements[last_key]),
                                           index_raw)]
                          r == Vector_swap_remove_raw(set.elements, st1, index_raw)
                      IN  IF r.fault
                          THEN [fault |-> TRUE, set |-> set, st |-> st]
                          ELSE [fault |-> FALSE,
                                set |-> [set EXCEPT !.elements = r.vec],
                                st |-> r.st]

UnorderedSet_to_vec(set, st) ==
    LET len == set.elements.len
    IN  IF \A k \in 0..(len - 1) :
               storage_has_key(st.elements, Vector_lookup_key(set.elements, k))
        THEN [fault |-> FALSE,
              list |-> [k \in 1..len |->
                           st.elements[Vector_lookup_key(set.elements, k - 1)]]]
        ELSE [fault |-> TRUE, list |-> <<>>]

\* ------------------------------------------------------------- the queries
GameItem(id, owner, metadata) ==
    [id |-> id, owner_id |-> owner, metadata |-> metadata]

\* get_item that answers None for a missing id instead of failing
GetItem_MissingIsEmpty(its, id) ==
    IF id \in DOMAIN its
    THEN [result |-> "ok", item |-> {its[id]}]
    ELSE [result |-> "ok", item |-> {}]

\* get_item on the maps its: "ok" with the record, or "NotFound"
GetItem(its, id) ==
    IF id \in DOMAIN its
    THEN [result |-> "ok", item |-> {its[id]}]
    ELSE [result |-> "NotFound", item |-> {}]

\* get_items_by_owner on the maps oti, st
GetItemsByOwner(oti, st, account) ==
    IF account \in DOMAIN oti
    THEN LET v == UnorderedSet_to_vec(oti[account], st)
         IN  [result |-> IF v.fault THEN "InternalFault" ELSE "ok",
              list |-> v.list]
    ELSE [result |-> "ok", list |-> <<>>]

Range(s) == {s[k] : k \in 1..Len(s)}

\* ------------------------------------------------------------------- calls
Call(op, sender, id, account, metadata, result, item, list) ==
    [op |-> op, sender |-> sender, id |-> id, account |-> account,
     metadata |-> metadata, result |-> result, item |-> item, list |-> list]

Snapshot == [items |-> items, owner_to_items |-> owner_to_items,
             storage |-> storage]

new(administrator) ==
    /\ owner_id = administrator
    /\ items = EmptyMap
    /\ owner_to_items = EmptyMap
    /\ storage = [index |-> EmptyMap, elements |-> EmptyMap]
    /\ call = Call("new", None, None, administrator, None, "ok", {}, <<>>)
    /\ pre = [items |-> EmptyMap, owner_to_items |-> EmptyMap,
              storage |-> [index |-> EmptyMap, elements |-> EmptyMap]]

\* the account the contract is deployed with, tests::test_mint_and_transfer
Administrator == AccountPool[1]

Init == new(Administrator)

\* mint without the administrator check of line 37
MintCheck_NoAdminCheck(sender, id) ==
    IF id \in DOMAIN items THEN "AlreadyExists" ELSE "ok"

\* mint without the duplicate-id check of line 38
MintCheck_NoDuplicateCheck(sender, id) ==
    IF sender # owner_id THEN "Unauthorized" ELSE "ok"

\* mint that takes any account holding a set of items for "the owner"
MintCheck_AnySetOwnerMayMint(sender, id) ==
    IF sender # owner_id /\ sender \notin DOMAIN owner_to_items THEN "Unauthorized"
    ELSE IF id \in DOMAIN items THEN "AlreadyExists"
    ELSE "ok"

\* mint with the two assertions of lines 37 and 38 in the other order
MintCheck_DuplicateFirst(sender, id) ==
    IF id \in DOMAIN items THEN "AlreadyExists"
    ELSE IF sender # owner_id THEN "Unauthorized"
    ELSE "ok"

\* which check of mint fails, if any
MintCheck(sender, id) ==
    IF sender # owner_id THEN "Unauthorized"
    ELSE IF id \in DOMAIN items THEN "AlreadyExists"
    ELSE "ok"

mint(sender, id, metadata) ==
    LET check == MintCheck(sender, id)
        items_set == IF sender \in DOMAIN owner_to_items
                     THEN owner_to_items[sender]
                     ELSE UnorderedSet_new(OwnerPrefix)
        ins == UnorderedSet_insert(items_set, storage, id)
    IN  /\ pre' = Snapshot
        /\ owner_id' = owner_id
        /\ IF check # "ok"
           THEN /\ call' = Call("mint", sender, id, None, metadata, check, {}, <<>>)
                /\ UNCHANGED <<items, owner_to_items, storage>>
           ELSE /\ call' = Call("mint", sender, id, None, metadata, "ok", {}, <<>>)
                /\ items' = storage_write(items, id, GameItem(id, sender, metadata))
                /\ storage' = ins.st
                /\ owner_to_items' = storage_write(owner_to_items, sender, ins.set)

\* transfer that also lets the administrator move any item
TransferCheck_AdminMayTransfer(sender, id) ==
    IF id \notin DOMAIN items THEN "NotFound"
    ELSE IF items[id].owner_id # sender /\ sender # owner_id THEN "Unauthorized"
    ELSE "ok"

\* transfer that reports a missing item as a caller without permission
TransferCheck_MissingIsUnauthorized(sender, id) ==
    IF id \notin DOMAIN items THEN "Unauthorized"
    ELSE IF items[id].owner_id # sender THEN "Unauthorized"
    ELSE "ok"

\* which check of transfer fails, if any
TransferCheck(sender, id) ==
    IF id \notin DOMAIN items THEN "NotFound"
    ELSE IF items[id].owner_id # sender THEN "Unauthorized"
    ELSE "ok"

\* transfer that does not write the sender's set back (line 65 left out)
TransferSaveCurrent_NotSaved(oti, sender, set) == oti

\* the sender's set after line 65
TransferSaveCurrent(oti, sender, set) == storage_write(oti, sender, set)

\* transfer that drops the record instead of writing it back (line 77 left out
\* after a remove)
TransferUpdateItem_Dropped(its, id, new_owner_id) == storage_remove(its, id)

\* transfer that rebuilds the record and loses its metadata
TransferUpdateItem_MetadataLost(its, id, new_owner_id) ==
    [its EXCEPT ![id] = GameItem(id, new_owner_id, None)]

\* the items map after lines 76-77
TransferUpdateItem(its, id, new_owner_id) ==
    [its EXCEPT ![id].owner_id = new_owner_id]

transfer(sender, id, new_owner_id) ==
    LET check == TransferCheck(sender, id)
        has_set == sender \in DOMAIN owner_to_items
        current_owner_items == owner_to_items[sender]
        rem == UnorderedSet_remove(current_owner_items, storage, id)
        oti1 == TransferSaveCurrent(owner_to_items, sender, rem.set)
        new_owner_items == IF new_owner_id \in DOMAIN oti1
                           THEN oti1[new_owner_id]
                           ELSE UnorderedSet_new(OwnerPrefix)
        ins == UnorderedSet_insert(new_owner_items, rem.st, id)
    IN  /\ pre' = Snapshot
        /\ owner_id' = owner_id
        /\ IF check # "ok"
           THEN /\ call' = Call("transfer", sender, id, new_owner_id, None,
                                check, {}, <<>>)
                /\ UNCHANGED <<items, owner_to_items, storage>>
           ELSE IF ~has_set \/ rem.fault \/ ins.fault
           THEN /\ call' = Call("transfer", sender, id, new_owner_id, None,
                                "InternalFault", {}, <<>>)
                /\ UNCHANGED <<items, owner_to_items, storage>>
           ELSE /\ call' = Call("transfer", sender, id, new_owner_id, None,
                                "ok", {}, <<>>)
                /\ owner_to_items' = storage_write(oti1, new_owner_id, ins.set)
                /\ storage' = ins.st
                /\ items' = TransferUpdateItem(items, id, new_owner_id)

get_item(id) ==
    LET r == GetItem(items, id)
    IN  /\ pre' = Snapshot
        /\ call' = Call("get_item", None, id, None, None, r.result, r.item, <<>>)
        /\ UNCHANGED <<owner_id, items, owner_to_items, storage>>

get_items_by_owner(account) ==
    LET r == GetItemsByOwner(owner_to_items, storage, account)
    IN  /\ pre' = Snapshot
        /\ call' = Call("get_items_by_owner", None, None, account, None,
                        r.result, {}, r.list)
        /\ UNCHANGED <<owner_id, items, owner_to_items, storage>>

Next ==
    \/ \E sender \in Accounts, id \in Ids, metadata \in Metadata :
           mint(sender, id, metadata)
    \/ \E sender \in Accounts, id \in Ids, new_owner_id \in Accounts :
           transfer(sender, id, new_owner_id)
    \/ \E id \in Ids : get_item(id)
    \/ \E account \in Accounts : get_items_by_owner(account)

Spec == Init /\ [][Next]_vars

\* ---------------------------------------------------------- observations
\* what get_items_by_owner returns now, and returned before the last call
ListNow(account) == GetItemsByOwner(owner_to_items, storage, account)
ListPre(account) == GetItemsByOwner(pre.owner_to_items, pre.storage, account)

Contains(r, id) == r.result = "ok" /\ id \in Range(r.list)
Count(list, id) == Cardinality({k \in 1..Len(list) : list[k] = id})

Owned(its, account) == {i \in DOMAIN its : its[i].owner_id = account}

\* the items map and every owner's list are as the last call found them
Unmutated ==
    /\ items = pre.items
    /\ \A o \in Accounts : ListNow(o) = ListPre(o)

\* the last call was transfer(id, B) by A, the owner of the existing item id
TransferByOwner ==
    /\ call.op = "transfer"
    /\ call.id \in DOMAIN pre.items
    /\ pre.items[call.id].owner_id = call.sender

\* -------------------------------------------------------------- properties

\* C1: in every reachable state, for every created item i and every account
\* o, get_item(i).owner_id = o if and only if get_items_by_owner(o)
\* contains i.
C1_IndexAgreesWithOwner ==
    \A i \in DOMAIN items : \A o \in Accounts :
        (items[i].owner_id = o) <=> Contains(ListNow(o), i)

\* C2: in every reachable state, every created item id appears in the list of
\* exactly one account, and exactly once in that list.
C2_ExclusiveMembership ==
    \A i \in DOMAIN items :
        /\ Cardinality({o \in Accounts : Contains(ListNow(o), i)}) = 1
        /\ \A o \in Accounts :
               Contains(ListNow(o), i) => Count(ListNow(o).list, i) = 1

\* C3: after the owner A of an existing item id called transfer(id, B) with
\* B # A, get_item(id).owner_id = B, A's list no longer contains id, and B's
\* list contains id (and is exactly [id] when B owned nothing before).
C3_TransferMovesItem ==
    (TransferByOwner /\ call.account # call.sender) =>
        /\ call.result = "ok"
        /\ GetItem(items, call.id).result = "ok"
        /\ items[call.id].owner_id = call.account
        /\ ~Contains(ListNow(call.sender), call.id)
        /\ Contains(ListNow(call.account), call.id)
        /\ (Owned(pre.items, call.account) = {} =>
               ListNow(call.account).list = <<call.id>>)

\* C4: after the administrator called mint(id, metadata) with an id not
\* present in items, get_item(id) returns {id, administrator, metadata} and
\* get_items_by_owner(administrator) contains id.
C4_MintCreatesItem ==
    (call.op = "mint" /\ call.sender = owner_id /\ call.id \notin DOMAIN pre.items) =>
        /\ call.result = "ok"
        /\ GetItem(items, call.id) =
               [result |-> "ok",
                item |-> {GameItem(call.id, owner_id, call.metadata)}]
        /\ Contains(ListNow(owner_id), call.id)

\* C5: transfer of an existing item by a caller other than its current owner
\* fails with Unauthorized, and the items map and every owner's list are as
\* before the call.
C5_TransferByOtherUnauthorized ==
    (/\ call.op = "transfer"
     /\ call.id \in DOMAIN pre.items
     /\ pre.items[call.id].owner_id # call.sender) =>
        /\ call.result = "Unauthorized"
        /\ Unmutated

\* a peer of the owner (not the administrator) tried to take the item
C5_Witness ==
    /\ call.op = "transfer"
    /\ call.result = "Unauthorized"
    /\ call.id \in DOMAIN items
    /\ call.account = call.sender
    /\ call.sender # owner_id
    /\ items[call.id].owner_id \notin {call.sender, owner_id}

\* C6: mint by a caller other than the administrator fails with
\* Unauthorized, adds no id to items, and leaves the items map and every
\* owner's list as before the call.
C6_MintByOtherUnauthorized ==
    (call.op = "mint" /\ call.sender # owner_id) =>
        /\ call.result = "Unauthorized"
        /\ DOMAIN items = DOMAIN pre.items
        /\ Unmutated

\* a caller other than the administrator tried to mint an unused id
C6_Witness ==
    /\ call.op = "mint"
    /\ call.sender # owner_id
    /\ call.result = "Unauthorized"
    /\ call.id \notin DOMAIN items
    /\ items # EmptyMap

\* C7 as stated: every later mint of an id that was minted fails with
\* AlreadyExists and leaves the record and every owner's list unchanged.
C7_RemintAlwaysAlreadyExists ==
    (call.op = "mint" /\ call.id \in DOMAIN pre.items) =>
        /\ call.result = "AlreadyExists"
        /\ Unmutated

\* C7 as amended: every later mint of an id that was minted fails, with
\* AlreadyExists when the caller is the administrator and with Unauthorized
\* otherwise, and leaves the record and every owner's list unchanged.
C7_RemintFails ==
    (call.op = "mint" /\ call.id \in DOMAIN pre.items) =>
        /\ call.result = IF call.sender = owner_id
                         THEN "AlreadyExists" ELSE "Unauthorized"
        /\ Unmutated

\* the administrator minted again an id it has transferred away
C7_Witness ==
    /\ call.op = "mint"
    /\ call.result = "AlreadyExists"
    /\ call.id \in DOMAIN items
    /\ items[call.id].owner_id # owner_id

\* C8: transfer of an id that is not present in items fails with NotFound
\* for every caller and mutates neither the items map nor any owner's set;
\* it creates no set entry for the new owner.
C8_TransferMissingNotFound ==
    (call.op = "transfer" /\ call.id \notin DOMAIN pre.items) =>
        /\ call.result = "NotFound"
        /\ Unmutated
        /\ owner_to_items = pre.owner_to_items
        /\ storage = pre.storage

\* the administrator transferred a missing id to an account without a set
C8_Witness ==
    /\ call.op = "transfer"
    /\ call.result = "NotFound"
    /\ call.sender = owner_id
    /\ call.account \notin DOMAIN owner_to_items
    /\ items # EmptyMap

\* C9: transfer(id, A) by A, the current owner of id, succeeds and leaves
\* get_item(id).owner_id = A and get_items_by_owner(A) with the same ids as
\* before, id among them exactly once.
C9_SelfTransferNoOp ==
    (TransferByOwner /\ call.account = call.sender) =>
        /\ call.result = "ok"
        /\ items[call.id].owner_id = call.sender
        /\ ListNow(call.sender).result = "ok"
        /\ ListPre(call.sender).result = "ok"
        /\ Range(ListNow(call.sender).list) = Range(ListPre(call.sender).list)
        /\ Count(ListNow(call.sender).list, call.id) = 1

\* C10: get_items_by_owner(o) returns the empty list, without failing, for
\* every account o that owns no item, whether it has no set entry or has
\* transferred away all it held.
C10_EmptyListForNonOwners ==
    /\ \A o \in Accounts :
           Owned(items, o) = {} => ListNow(o) = [result |-> "ok", list |-> <<>>]
    /\ (call.op = "get_items_by_owner" /\ Owned(items, call.account) = {}) =>
           (call.result = "ok" /\ call.list = <<>>)

\* get_items_by_owner was called for an account that held items and
\* transferred them all away
C10_Witness ==
    /\ call.op = "get_items_by_owner"
    /\ call.account \in DOMAIN owner_to_items
    /\ Owned(items, call.account) = {}
    /\ call.result = "ok"
    /\ call.list = <<>>
    /\ items # EmptyMap


\* C11: the owner field of an item changes only through a successful
\* transfer of that same item called by its then-current owner, and the new
\* owner is the account the transfer names.
C11_OwnerChangesOnlyByTransfer ==
    \A i \in DOMAIN pre.items :
        (i \in DOMAIN items /\ items[i].owner_id # pre.items[i].owner_id) =>
            /\ call.op = "transfer"
            /\ call.result = "ok"
            /\ call.id = i
            /\ call.sender = pre.items[i].owner_id
            /\ call.account = items[i].owner_id

\* an account other than the administrator passed its item on
C11_Witness ==
    /\ call.op = "transfer"
    /\ call.result = "ok"
    /\ call.sender # owner_id
    /\ call.id \in DOMAIN items
    /\ items[call.id].owner_id # pre.items[call.id].owner_id
    /\ items[call.id].owner_id = call.account

C13_ItemsNeverRemoved ==
    /\ DOMAIN pre.items \subseteq DOMAIN items
    /\ \A i \in DOMAIN items : GetItem(items, i).result = "ok"
    /\ (call.op = "mint" /\ call.result = "ok") => call.id \in DOMAIN items
    /\ (call.op = "get_item" /\ call.id \in DOMAIN pre.items) =>
           call.result = "ok"

\* get_item found an item that has been transferred, every id being minted
C13_Witness ==
    /\ call.op = "get_item"
    /\ call.result = "ok"
    /\ call.id \in DOMAIN pre.items
    /\ items[call.id].owner_id # owner_id
    /\ Cardinality(DOMAIN items) = NumIds

\* C14: the administrator recorded by new never changes, and mint succeeds
\* if and only if the caller is that account and the id is not present in
\* items, whatever the administrator currently owns.
C14_MintIffAdministratorAndNewId ==
    /\ owner_id = Administrator
    /\ call.op = "mint" =>
           (call.result = "ok" <=>
               (call.sender = Administrator /\ call.id \notin DOMAIN pre.items))

\* the administrator minted while it owned none of the existing items
C14_Witness ==
    /\ call.op = "mint"
    /\ call.result = "ok"
    /\ call.sender = Administrator
    /\ pre.items # EmptyMap
    /\ Owned(pre.items, Administrator) = {}

\* C15: get_item and get_items_by_owner, succeeding or failing, leave the
\* items map, every owner's set and the administrator unchanged; get_item
\* fails with NotFound exactly when the id was never minted.
C15_QueriesReadOnly ==
    /\ call.op \in {"get_item", "get_items_by_owner"} =>
           /\ items = pre.items
           /\ owner_to_items = pre.owner_to_items
           /\ storage = pre.storage
           /\ owner_id = Administrator
    /\ call.op = "get_item" =>
           /\ call.result \in {"ok", "NotFound"}
           /\ call.result = "NotFound" <=> call.id \notin DOMAIN items

\* get_item failed for an id that was never minted, other items existing
C15_Witness ==
    /\ call.op = "get_item"
    /\ call.result = "NotFound"
    /\ call.id \notin DOMAIN items
    /\ items # EmptyMap
    /\ items = pre.items

\* the last call was a successful mint or transfer
Mutation == call.op \in {"mint", "transfer"} /\ call.result = "ok"

\* C16: a successful mint(id, ..) or transfer(id, newOwner) changes the
\* membership of id only: for every other id and every account, whether the
\* account's list contains it is as before, and the lists of the accounts
\* that are neither the caller nor newOwner are unchanged.
C16_OwnerSetsIndependent ==
    Mutation =>
        /\ \A i \in Ids \ {call.id} : \A o \in Accounts :
               Contains(ListNow(o), i) <=> Contains(ListPre(o), i)
        /\ \A o \in Accounts \ {call.sender, call.account} :
               ListNow(o) = ListPre(o)

\* C17: transfer(id, newOwner) called by the current owner of an existing
\* item succeeds; the only failures of transfer are NotFound and
\* Unauthorized.
C17_TransferByOwnerSucceeds ==
    /\ call.op = "transfer" => call.result \in {"ok", "NotFound", "Unauthorized"}
    /\ TransferByOwner => call.result = "ok"

\* When A has passed id on to B # A, the very next call, if it is a transfer
\* of id, fails with Unauthorized when A makes it and succeeds when B makes
\* it (the case of tests::test_mint_and_transfer).
C18_NextTransferFollowsOwnership ==
    [][(/\ call.op = "transfer" /\ call.result = "ok"
        /\ call.account # call.sender
        /\ call'.op = "transfer" /\ call'.id = call.id) =>
           /\ call'.sender = call.sender => call'.result = "Unauthorized"
           /\ call'.sender = call.account => call'.result = "ok"]_vars

\* C18: the right to transfer follows ownership: an item held by an account
\* B other than the administrator was passed to B by a transfer; a transfer
\* of it succeeds when B calls it and fails with Unauthorized for every other
\* caller, the administrator and the former owner included.
C18_TransferRightFollowsOwnership ==
    (/\ call.op = "transfer"
     /\ call.id \in DOMAIN pre.items
     /\ pre.items[call.id].owner_id # Administrator) =>
        /\ call.sender = pre.items[call.id].owner_id => call.result = "ok"
        /\ call.sender # pre.items[call.id].owner_id =>
               call.result = "Unauthorized"

\* C19: mint asserts the administrator before the duplicate id, so mint of
\* an existing id by another caller fails with Unauthorized, and a mint that
\* fails either check has written nothing.
C19_MintCheckOrder ==
    /\ (call.op = "mint" /\ call.sender # owner_id /\ call.id \in DOMAIN pre.items) =>
           call.result = "Unauthorized"
    /\ (call.op = "mint" /\ call.result # "ok") =>
           /\ call.result \in {"Unauthorized", "AlreadyExists"}
           /\ items = pre.items
           /\ owner_to_items = pre.owner_to_items
           /\ storage = pre.storage

\* a caller other than the administrator minted an id that exists
C19_Witness ==
    /\ call.op = "mint"
    /\ call.sender # owner_id
    /\ call.id \in DOMAIN items
    /\ call.result = "Unauthorized"

=============================================================================
